---- MODULE Spec2Model ----
(***************************************************************************)
(* Model of server/server.go: the HTTP handlers /lookup, /aia,             *)
(* /get-new-negative-ca, /cross-sign-ca and /original-from-serial, the     *)
(* three certificate caches and the background goroutines that insert      *)
(* into and pop from the domain cache.                                     *)
(*                                                                         *)
(* Strings are sequences of tokens.  A domain name is a sequence of words  *)
(* and " " tokens; a hex string is a sequence of characters; a PEM/DER     *)
(* text is a sequence of text tokens (PEM blocks, "\n\n" separators, raw   *)
(* DER, other text).  Time is counted in minutes.                          *)
(***************************************************************************)
EXTENDS Integers, Sequences, FiniteSets, Bags, TLC

\* ------------------------------------------------------------------ bounds

NumSlots == 2       \* handlers that can be in flight at once
MaxTime == 3        \* minutes the clock runs
MaxSynth == 3       \* calls of safetlsa.GetCertFromTLSA that succeed
MaxSign == 2        \* calls of crosssign.CrossSign

Slots == 1..NumSlots

\* ------------------------------------------------------- program constants

CertTTL == 2        \* expiration: time.Now().Add(2 * time.Minute)
FreshMargin == 1    \* time.Until(cert.expiration) > 1*time.Minute
PopDelay == 2       \* time.Sleep(2 * time.Minute)

\* ------------------------------------------------------------ domain names

RootCAName == <<"Namecoin", " ", "Root", " ", "CA">>
TLDCAName == <<".bit", " ", "TLD", " ", "CA">>
DomainCASuffix == <<" ", "Domain", " ", "CA">>
AIAParentSuffix == <<" ", "Domain", " ", "AIA", " ", "Parent", " ", "CA">>

\* strings.TrimSuffix
TrimSuffix(s, suffix) ==
    IF Len(s) >= Len(suffix) /\ SubSeq(s, Len(s) - Len(suffix) + 1, Len(s)) = suffix
    THEN SubSeq(s, 1, Len(s) - Len(suffix))
    ELSE s

\* strings.Contains that finds nothing.
ContainsSpaceNever(s) == FALSE

\* strings.Contains(s, " ")
ContainsSpace(s) == \E i \in 1..Len(s) : s[i] = " "

\* The values of the "domain" form field that requests carry.
Domains ==
    { RootCAName, TLDCAName, <<"a.bit">>, <<"a.bit">> \o DomainCASuffix,
      <<"a.bit">> \o AIAParentSuffix, <<"Some", " ", "CA">> }

\* --------------------------------------------------------------- hex, hash

HexLower == <<"0","1","2","3","4","5","6","7","8","9","a","b","c","d","e","f">>
HexUpper == <<"0","1","2","3","4","5","6","7","8","9","A","B","C","D","E","F">>

IsHexChar(c) == \E i \in 1..16 : HexLower[i] = c \/ HexUpper[i] = c
HexVal(c) == (CHOOSE i \in 1..16 : HexLower[i] = c \/ HexUpper[i] = c) - 1

\* hex.DecodeString: an error on odd length or a non-hex character, else the
\* bytes.  Both cases of a digit decode to the same value.
HexValid(s) == Len(s) % 2 = 0 /\ \A i \in 1..Len(s) : IsHexChar(s[i])
HexBytes(s) == [i \in 1..(Len(s) \div 2) |-> 16 * HexVal(s[2*i - 1]) + HexVal(s[2*i])]
\* hex.DecodeString with its error dropped.
HexDecodeStringLenient(s) ==
    [err |-> FALSE, bytes |-> IF HexValid(s) THEN HexBytes(s) ELSE <<>>]

HexDecodeString(s) ==
    IF HexValid(s) THEN [err |-> FALSE, bytes |-> HexBytes(s)]
    ELSE [err |-> TRUE, bytes |-> <<>>]

\* sha256.Sum256, with a one-byte digest standing for the 32-byte one.
RECURSIVE Sum256Fold(_, _)
Sum256Fold(b, h) ==
    IF b = <<>> THEN h ELSE Sum256Fold(Tail(b), (h * 31 + Head(b) + 17) % 256)
Sum256(b) == <<Sum256Fold(b, 17)>>

\* big.Int.String(): the decimal digits of a serial number below 100.
DecimalString(n) ==
    IF n < 10 THEN <<HexLower[n + 1]>>
    ELSE <<HexLower[(n \div 10) + 1], HexLower[(n % 10) + 1]>>

\* ------------------------------------------------------ DER and text tokens

\* A DER value: a certificate or a key.  nonce stands for the random part of
\* a signature or of a generated key.
Der(what, subject, spki, issuer, serial, nonce) ==
    [what |-> what, subject |-> subject, spki |-> spki, issuer |-> issuer,
     serial |-> serial, nonce |-> nonce]
NoDer == Der("none", <<>>, <<>>, <<>>, 0, 0)

NLTok == [kind |-> "NL", type |-> "", bytes |-> NoDer]          \* "\n\n"
TxtTok == [kind |-> "TXT", type |-> "", bytes |-> NoDer]        \* text outside a PEM block
PemTok(type, der) == [kind |-> "PEM", type |-> type, bytes |-> der]
DerTok(der) == [kind |-> "DER", type |-> "", bytes |-> der]     \* string(der)

\* pem.EncodeToMemory(&pem.Block{Type: type, Bytes: der})
PemEncodeToMemory(type, der) == <<PemTok(type, der)>>

\* pem.Decode: the first PEM block of the text, skipping what precedes it; nil
\* when the text holds no block.
PemDecode(text) ==
    IF \E i \in 1..Len(text) : text[i].kind = "PEM"
    THEN LET i == CHOOSE j \in 1..Len(text) :
                    /\ text[j].kind = "PEM"
                    /\ \A k \in 1..(j - 1) : text[k].kind # "PEM"
         IN [nil |-> FALSE, type |-> text[i].type, bytes |-> text[i].bytes]
    ELSE [nil |-> TRUE, type |-> "", bytes |-> NoDer]

\* x509.ParseECPrivateKey, x509.ParseCertificate: whether the DER parses.
ParseECPrivateKeyOk(der) == der.what = "eckey"
ParseCertificateOk(der) == der.what = "cert"

\* ------------------------------------------------------------- CA material

RootCertDer == Der("cert", RootCAName, <<1>>, RootCAName, 1, 0)
\* The content of the root certificate file: a PEM block followed by other text.
RootCertFile == <<PemTok("CERTIFICATE", RootCertDer), TxtTok>>

\* safetlsa.GenerateTLDCA("bit", rootCert, rootPriv)
GenerateTLDCA == Der("cert", TLDCAName, <<2>>, RootCAName, 2, 0)

\* server.New with the PEM string rebuilt from the decoded block.
NewCAReencoded ==
    [ rootCertPemString |-> PemEncodeToMemory("CERTIFICATE", PemDecode(RootCertFile).bytes),
      rootCert |-> PemDecode(RootCertFile).bytes,
      tldCert |-> GenerateTLDCA,
      tldCertPemString |-> PemEncodeToMemory("CERTIFICATE", GenerateTLDCA) ]

\* server.New: the fields of Server that hold CA material.
NewCA ==
    [ rootCertPemString |-> RootCertFile,
      rootCert |-> PemDecode(RootCertFile).bytes,
      tldCert |-> GenerateTLDCA,
      tldCertPemString |-> PemEncodeToMemory("CERTIFICATE", GenerateTLDCA) ]

\* --------------------------------------------------------------------- DNS

\* A resource record of the answer section.  accept: whether the safetlsa
\* library supports the record's parameters.
RR(rrtype, usage, selector, mtype, certificate, accept) ==
    [rrtype |-> rrtype, usage |-> usage, selector |-> selector,
     mtype |-> mtype, certificate |-> certificate, accept |-> accept]

TlsaCA == RR("TLSA", 2, 1, 0, <<"0", "a">>, TRUE)
TlsaEE == RR("TLSA", 3, 1, 0, <<"0", "B">>, TRUE)
TlsaBadHex == RR("TLSA", 2, 1, 0, <<"0", "z">>, TRUE)
TlsaRejected == RR("TLSA", 2, 1, 0, <<"0", "c">>, FALSE)
NonTlsa == RR("A", 0, 0, 0, <<>>, FALSE)

Answers ==
    { <<>>, <<TlsaCA>>, <<TlsaRejected>>, <<NonTlsa, TlsaBadHex, TlsaEE, TlsaCA>> }

\* What qparams.Do returns: an error, a nil ResponseMsg, or a message.
Outcome(err, isNil, rcode, ad, aa, answer) ==
    [err |-> err, isNil |-> isNil, rcode |-> rcode, ad |-> ad, aa |-> aa,
     answer |-> answer]
NoOutcome == Outcome(FALSE, FALSE, "", FALSE, FALSE, <<>>)

DnsOutcomes ==
    { Outcome(TRUE, FALSE, "", FALSE, FALSE, <<>>),
      Outcome(FALSE, TRUE, "", FALSE, FALSE, <<>>),
      Outcome(FALSE, FALSE, "SERVFAIL", TRUE, TRUE, <<TlsaCA>>),
      Outcome(FALSE, FALSE, "NXDOMAIN", TRUE, TRUE, <<TlsaCA>>),
      Outcome(FALSE, FALSE, "NOERROR", FALSE, FALSE, <<>>),
      Outcome(FALSE, FALSE, "NOERROR", FALSE, FALSE, <<TlsaCA>>),
      Outcome(FALSE, FALSE, "NOERROR", FALSE, TRUE, <<TlsaCA>>),
      Outcome(FALSE, FALSE, "NOERROR", TRUE, TRUE, <<TlsaCA>>) }
    \cup { Outcome(FALSE, FALSE, "NOERROR", TRUE, FALSE, a) : a \in Answers }

\* ------------------------------------------------------ library primitives

\* GetCertFromTLSA issuing under the root CA instead of the TLD CA.
GetCertFromTLSAUnderRoot(domain, tlsa, tldCert) ==
    IF tlsa.accept /\ HexValid(tlsa.certificate)
    THEN [err |-> FALSE,
          der |-> Der("cert", domain, HexBytes(tlsa.certificate), RootCAName, 0, 0)]
    ELSE [err |-> TRUE, der |-> NoDer]

\* safetlsa.GetCertFromTLSA(domain, tlsa, tldCert, tldPriv): a certificate for
\* the domain whose subject public key is the record's key, issued by the TLD
\* CA; an error when the library rejects the record.
GetCertFromTLSA(domain, tlsa, tldCert) ==
    IF tlsa.accept /\ HexValid(tlsa.certificate)
    THEN [err |-> FALSE,
          der |-> Der("cert", domain, HexBytes(tlsa.certificate), tldCert.subject, 0, 0)]
    ELSE [err |-> TRUE, der |-> NoDer]

\* crosssign.CrossSign(toSign, signerCert, signerKey): toSign's subject, key
\* and serial under the signer's name, with a fresh signature; an error when
\* an input is no certificate.  A "laxcert" is accepted by the library and
\* rejected by x509.ParseCertificate.
CrossSign(toSign, signerCert, n) ==
    IF toSign.what \in {"cert", "laxcert"} /\ signerCert.what = "cert"
    THEN [err |-> FALSE,
          der |-> Der(toSign.what, toSign.subject, toSign.spki, signerCert.subject,
                      toSign.serial, n)]
    ELSE [err |-> TRUE, der |-> NoDer]

\* ------------------------------------------------------------------- state

VARIABLES
    now,                \* the clock, in minutes
    ca,                 \* rootCert, rootCertPemString, tldCert, tldCertPemString
    domainCertCache,    \* map[string][]cachedCert, keyed by common name
    negativeCertCache,  \* map[string][]cachedCert, keyed by cross-sign fingerprint
    originalCertCache,  \* map[string][]cachedCert, keyed by decimal serial
    lookups,            \* per slot: a lookupHandler waiting for its DNS answer
    signs,              \* per slot: a crossSignCAHandler past its cache probe
    inserts,            \* bag of goroutines "go s.cacheDomainCert(...)" not yet run
    pops,               \* bag of goroutines "go s.popCachedDomainCertLater(...)" not yet done
    nSynth,             \* successful GetCertFromTLSA calls made by /lookup so far
    nSign,              \* CrossSign calls so far
    synthLog,           \* history: each synthesised certificate with the header of its DNS answer
    signed,             \* history: the /cross-sign-ca requests that signed and returned
    resp,               \* the request that the last step answered, with its response
    mu,                 \* per cache: its RWMutex (readers, writer, writers waiting)
    threads,            \* per thread: the mutex operations and blocking calls it has to do
    dirty               \* per cache: the writes to it that are half done

\* the state of the handlers with each cache function taken as one step
serverVars ==
    <<now, ca, domainCertCache, negativeCertCache, originalCertCache, lookups, signs,
      inserts, pops, nSynth, nSign, synthLog, signed, resp>>

\* the state of the cache functions taken statement by statement
lockVars == <<mu, threads, dirty>>

vars == <<serverVars, lockVars>>

caches == <<domainCertCache, negativeCertCache, originalCertCache>>

\* ------------------------------------------------------------------- maps

EmptyMap == <<>>
MapGet(m, k) == IF k \in DOMAIN m THEN m[k] ELSE <<>>        \* nil slice when absent
MapPut(m, k, v) == [x \in (DOMAIN m) \cup {k} |-> IF x = k THEN v ELSE m[x]]
Range(f) == { f[x] : x \in DOMAIN f }
MapDelete(m, k) == [x \in (DOMAIN m) \ {k} |-> m[x]]

\* The bag of a sequence's elements.
RECURSIVE BagOfSeq(_)
BagOfSeq(seq) ==
    IF seq = <<>> THEN EmptyBag ELSE SetToBag({Head(seq)}) (+) BagOfSeq(Tail(seq))

cachedCert(expiration, certPem) == [expiration |-> expiration, certPem |-> certPem]

\* results = results + cert.certPem + "\n\n", over the entries in order
RECURSIVE JoinCerts(_)
JoinCerts(certs) ==
    IF certs = <<>> THEN <<>>
    ELSE Head(certs).certPem \o <<NLTok>> \o JoinCerts(Tail(certs))

\* ------------------------------------------------------------ domain cache

\* time.Until(cert.expiration) > 1*time.Minute
DomainCertFresh(cert, t) == cert.expiration - t > FreshMargin

getCachedDomainCerts(cache, commonName, t) ==
    LET certs == MapGet(cache, commonName)
    IN [results |-> JoinCerts(certs),
        needRefresh |-> ~ \E i \in 1..Len(certs) : DomainCertFresh(certs[i], t)]

cacheDomainCert(cache, commonName, certPem, t) ==
    LET cert == cachedCert(t + CertTTL, certPem)
    IN IF commonName \notin DOMAIN cache
       THEN MapPut(cache, commonName, <<cert>>)
       ELSE MapPut(cache, commonName, Append(cache[commonName], cert))

\* popCachedDomainCertLater removing the last entry instead of the first.
popCachedDomainCertLast(cache, commonName) ==
    IF commonName \in DOMAIN cache
    THEN IF Len(cache[commonName]) > 1
         THEN MapPut(cache, commonName,
                     SubSeq(cache[commonName], 1, Len(cache[commonName]) - 1))
         ELSE MapDelete(cache, commonName)
    ELSE cache

\* popCachedDomainCertLater reslicing the last entry away instead of deleting the key.
popCachedDomainCertReslice(cache, commonName) ==
    IF commonName \in DOMAIN cache
    THEN MapPut(cache, commonName, Tail(cache[commonName]))
    ELSE cache

\* popCachedDomainCertLater, after its sleep
popCachedDomainCert(cache, commonName) ==
    IF commonName \in DOMAIN cache
    THEN IF Len(cache[commonName]) > 1
         THEN MapPut(cache, commonName, Tail(cache[commonName]))
         ELSE MapDelete(cache, commonName)
    ELSE cache

\* ---------------------------------------------------------- negative cache

getCachedNegativeCerts(cache, commonName) ==
    LET certs == MapGet(cache, commonName)
    IN IF certs = <<>> THEN [results |-> <<>>, needRefresh |-> TRUE]
       ELSE [results |-> certs[1].certPem \o <<NLTok>>, needRefresh |-> FALSE]

\* cacheNegativeCert putting the new entry in front.
cacheNegativeCertInFront(cache, commonName, certPem, t) ==
    LET cert == cachedCert(t + CertTTL, certPem)
    IN IF commonName \notin DOMAIN cache
       THEN MapPut(cache, commonName, <<cert>>)
       ELSE MapPut(cache, commonName, <<cert>> \o cache[commonName])

cacheNegativeCert(cache, commonName, certPem, t) ==
    LET cert == cachedCert(t + CertTTL, certPem)
    IN IF commonName \notin DOMAIN cache
       THEN MapPut(cache, commonName, <<cert>>)
       ELSE MapPut(cache, commonName, Append(cache[commonName], cert))

\* ---------------------------------------------------------- original cache

getCachedOriginalFromSerial(cache, serial) ==
    LET certs == MapGet(cache, serial)
    IN IF certs = <<>> THEN [results |-> <<>>, needRefresh |-> TRUE]
       ELSE [results |-> certs[1].certPem \o <<NLTok>>, needRefresh |-> FALSE]

cacheOriginalFromSerial(cache, serial, certPem, t) ==
    LET cert == cachedCert(t + CertTTL, certPem)
    IN IF serial \notin DOMAIN cache
       THEN MapPut(cache, serial, <<cert>>)
       ELSE MapPut(cache, serial, Append(cache[serial], cert))

\* ----------------------------------------------------------- HTTP response

\* An http.ResponseWriter: status "" until a header or a body is written.
NewWriter == [status |-> "", body |-> <<>>]
WriteHeader(w, code) == IF w.status = "" THEN [w EXCEPT !.status = code] ELSE w
WriteString(w, text) ==
    [status |-> IF w.status = "" THEN "200" ELSE w.status, body |-> w.body \o text]
\* The handler returns: a response without a header goes out as 200.
Returned(w) == WriteHeader(w, "200")
\* A panic answered with status 500.
PanickedAs500(w) == [w EXCEPT !.status = "500"]

\* The handler panics: net/http drops the connection.
Panicked(w) == [w EXCEPT !.status = "panic"]

NoTriple == [toSign |-> <<>>, signerCert |-> <<>>, signerKey |-> <<>>]

\* The record kept of an answered request.  queried: a DNS query was issued;
\* probed: a cache was read; hit: the cache answered; invoked: CrossSign was
\* called; spawned: goroutines started.
Answered(kind, w) ==
    [kind |-> kind, domain |-> <<>>, pubsha256 |-> <<>>, triple |-> NoTriple,
     serial |-> <<>>, outcome |-> NoOutcome, queried |-> FALSE, probed |-> FALSE,
     hit |-> FALSE, invoked |-> FALSE, spawned |-> 0,
     status |-> w.status, body |-> w.body]

\* No request was answered.
NoResponse == Answered("none", NewWriter)

\* The response of the last handler to return has gone out.  A handler's
\* response is recorded in resp by the step in which the handler returns, and
\* taken out by the next step, Deliver; no handler reads resp.
Delivered == resp = NoResponse

\* ----------------------------------------------------------- DNS decisions

\* The DNS checks without the rcode check.
DnsFailedIgnoringRcode(o) == o.err \/ o.isNil

\* err != nil, ResponseMsg == nil, or an rcode other than Success and NameError
DnsFailed(o) == o.err \/ o.isNil \/ (o.rcode # "NOERROR" /\ o.rcode # "NXDOMAIN")
NameError(o) == o.rcode = "NXDOMAIN"
\* The trust check relaxed to any answer.
TrustedAnyAnswer(o) == TRUE

\* !(!AuthenticatedData && !Authoritative)
Trusted(o) == o.ad \/ o.aa

\* ------------------------------------------------------------------ /lookup

IdleLookup == [pc |-> "idle", domain |-> <<>>, name |-> <<>>, cacheResults |-> <<>>]

\* lookupRecords writing the stale cache text before the first certificate only.
RECURSIVE lookupRecordsStaleOnce(_, _, _, _, _)
lookupRecordsStaleOnce(answer, domain, cacheResults, tldCert, acc) ==
    IF answer = <<>> THEN acc
    ELSE LET rr == Head(answer)
             got == GetCertFromTLSA(domain, rr, tldCert)
             safeCertPem == PemEncodeToMemory("CERTIFICATE", got.der)
             stale == IF acc.pems = <<>> THEN cacheResults ELSE <<>>
         IN IF rr.rrtype # "TLSA" \/ got.err
            THEN lookupRecordsStaleOnce(Tail(answer), domain, cacheResults, tldCert, acc)
            ELSE lookupRecordsStaleOnce(Tail(answer), domain, cacheResults, tldCert,
                     [w |-> WriteString(acc.w, stale \o <<NLTok>> \o safeCertPem),
                      pems |-> Append(acc.pems, safeCertPem)])

\* The loop over dnsResponse.Answer: each TLSA record that the library turns
\* into a certificate is written after the stale cache text and handed to the
\* two goroutines.  acc.w is the response so far, acc.pems the safeCertPem
\* strings in answer order.
RECURSIVE lookupRecords(_, _, _, _, _)
lookupRecords(answer, domain, cacheResults, tldCert, acc) ==
    IF answer = <<>> THEN acc
    ELSE LET rr == Head(answer)
             got == GetCertFromTLSA(domain, rr, tldCert)
             safeCertPem == PemEncodeToMemory("CERTIFICATE", got.der)
         IN IF rr.rrtype # "TLSA" \/ got.err
            THEN lookupRecords(Tail(answer), domain, cacheResults, tldCert, acc)
            ELSE lookupRecords(Tail(answer), domain, cacheResults, tldCert,
                     [w |-> WriteString(acc.w, cacheResults \o <<NLTok>> \o safeCertPem),
                      pems |-> Append(acc.pems, safeCertPem)])

\* lookupHandler from the return of qparams.Do to its end.
lookupAnswer(domain, cacheResults, o, tldCert) ==
    IF DnsFailed(o) THEN [w |-> WriteHeader(NewWriter, "500"), pems |-> <<>>]
    ELSE IF NameError(o) THEN [w |-> NewWriter, pems |-> <<>>]
    ELSE IF ~ Trusted(o) THEN [w |-> NewWriter, pems |-> <<>>]
    ELSE lookupRecords(o.answer, domain, cacheResults, tldCert,
                       [w |-> NewWriter, pems |-> <<>>])

\* lookupHandler up to the DNS query: the special names, the cache probe, the
\* suffix strip and the space check.
LookupStart(s, d) ==
    /\ UNCHANGED lockVars
    /\ Delivered
    /\ lookups[s].pc = "idle"
    /\ LET got == getCachedDomainCerts(domainCertCache, d, now)
           name == TrimSuffix(d, DomainCASuffix)
           answered(w, probed, hit) ==
               [Answered("lookup", Returned(w)) EXCEPT
                    !.domain = d, !.probed = probed, !.hit = hit]
       IN IF d = RootCAName
          THEN /\ resp' = answered(WriteString(NewWriter, ca.rootCertPemString), FALSE, FALSE)
               /\ UNCHANGED lookups
          ELSE IF d = TLDCAName
          THEN /\ resp' = answered(WriteString(NewWriter, ca.tldCertPemString), FALSE, FALSE)
               /\ UNCHANGED lookups
          ELSE IF ~ got.needRefresh
          THEN /\ resp' = answered(WriteString(NewWriter, got.results), TRUE, TRUE)
               /\ UNCHANGED lookups
          ELSE IF ContainsSpace(name)
          THEN /\ resp' = answered(NewWriter, TRUE, FALSE)
               /\ UNCHANGED lookups
          ELSE /\ lookups' = [lookups EXCEPT ![s] =
                       [pc |-> "dns", domain |-> d, name |-> name,
                        cacheResults |-> got.results]]
               /\ resp' = NoResponse
    /\ UNCHANGED <<now, ca, caches, signs, inserts, pops, nSynth, nSign, synthLog, signed>>

\* lookupHandler from the DNS answer on: the rcode and trust checks, the loop
\* over the records, and the start of one cacheDomainCert and one
\* popCachedDomainCertLater goroutine per certificate.
LookupResolve(s, o) ==
    /\ UNCHANGED lockVars
    /\ Delivered
    /\ lookups[s].pc = "dns"
    /\ LET l == lookups[s]
           res == lookupAnswer(l.name, l.cacheResults, o, ca.tldCert)
           n == Len(res.pems)
       IN /\ nSynth + n <= MaxSynth
          /\ now + PopDelay <= MaxTime
          /\ inserts' = inserts (+)
                 BagOfSeq([i \in 1..n |-> [commonName |-> l.name, certPem |-> res.pems[i]]])
          /\ pops' = pops (+)
                 BagOfSeq([i \in 1..n |-> [commonName |-> l.name, due |-> now + PopDelay]])
          /\ nSynth' = nSynth + n
          /\ synthLog' = synthLog \cup
                 { [der |-> PemDecode(res.pems[i]).bytes,
                    rcode |-> o.rcode, ad |-> o.ad, aa |-> o.aa] : i \in 1..n }
          /\ resp' = [Answered("lookup", Returned(res.w)) EXCEPT
                          !.domain = l.domain, !.outcome = o, !.queried = TRUE,
                          !.probed = TRUE, !.spawned = 2 * n]
    /\ lookups' = [lookups EXCEPT ![s] = IdleLookup]
    /\ UNCHANGED <<now, ca, caches, signs, nSign, signed>>

\* A "go s.cacheDomainCert(domain, safeCertPem)" goroutine runs.
CacheDomainCertTask(t) ==
    /\ UNCHANGED lockVars
    /\ Delivered
    /\ BagIn(t, inserts)
    /\ domainCertCache' = cacheDomainCert(domainCertCache, t.commonName, t.certPem, now)
    /\ inserts' = inserts (-) SetToBag({t})
    /\ UNCHANGED <<now, ca, negativeCertCache, originalCertCache, lookups, signs, pops,
                   nSynth, nSign, synthLog, signed>>
    /\ resp' = NoResponse

\* A "go s.popCachedDomainCertLater(domain)" goroutine wakes from its sleep,
\* two minutes or more after it was started.
PopCachedDomainCertTask(t) ==
    /\ UNCHANGED lockVars
    /\ Delivered
    /\ BagIn(t, pops)
    /\ now >= t.due
    /\ domainCertCache' = popCachedDomainCert(domainCertCache, t.commonName)
    /\ pops' = pops (-) SetToBag({t})
    /\ UNCHANGED <<now, ca, negativeCertCache, originalCertCache, lookups, signs, inserts,
                   nSynth, nSign, synthLog, signed>>
    /\ resp' = NoResponse

\* A minute passes.
Tick ==
    /\ UNCHANGED lockVars
    /\ Delivered
    /\ now < MaxTime
    /\ now' = now + 1
    /\ UNCHANGED <<ca, caches, lookups, signs, inserts, pops, nSynth, nSign, synthLog, signed>>
    /\ resp' = NoResponse

\* --------------------------------------------------------------------- /aia

\* The values of the "pubsha256" form field that requests carry.
PubShas ==
    { <<"2", "a">>, <<"2", "A">>, <<"2", "b">>, <<"f", "f">>, <<"z", "z">>, <<"2">>, <<>> }

\* aiaMatches without the comparison of the hashes.
aiaMatchesAnyKey(tlsa, pubSHA256) ==
    /\ tlsa.usage = 2 /\ tlsa.selector = 1 /\ tlsa.mtype = 0
    /\ ~ HexDecodeString(tlsa.certificate).err

\* The record is in the Namecoin CA form and its key hashes to pubSHA256.
aiaMatches(tlsa, pubSHA256) ==
    /\ tlsa.usage = 2 /\ tlsa.selector = 1 /\ tlsa.mtype = 0
    /\ ~ HexDecodeString(tlsa.certificate).err
    /\ pubSHA256 = Sum256(HexDecodeString(tlsa.certificate).bytes)

\* The loop over dnsResponse.Answer: the first matching record that the library
\* turns into a certificate is written as DER, and the loop ends.
RECURSIVE aiaRecords(_, _, _, _, _)
aiaRecords(answer, domain, pubSHA256, tldCert, w) ==
    IF answer = <<>> THEN w
    ELSE LET rr == Head(answer)
             got == GetCertFromTLSA(domain, rr, tldCert)
         IN IF rr.rrtype # "TLSA" \/ ~ aiaMatches(rr, pubSHA256) \/ got.err
            THEN aiaRecords(Tail(answer), domain, pubSHA256, tldCert, w)
            ELSE WriteString(w, <<DerTok(got.der)>>)

\* aiaHandler from the return of qparams.Do to its end.
aiaAnswer(domain, pubSHA256Hex, o, tldCert) ==
    IF DnsFailed(o) THEN WriteHeader(NewWriter, "500")
    ELSE IF NameError(o) THEN WriteHeader(NewWriter, "404")
    ELSE IF ~ Trusted(o) THEN WriteHeader(NewWriter, "404")
    ELSE IF HexDecodeString(pubSHA256Hex).err THEN WriteHeader(NewWriter, "404")
    ELSE aiaRecords(o.answer, domain, HexDecodeString(pubSHA256Hex).bytes, tldCert,
                    NewWriter)

\* aiaHandler.  It reads no cache and starts no goroutine, so the whole
\* handler is one step; o is the DNS answer it gets if it asks.
Aia(d, h, o) ==
    /\ UNCHANGED lockVars
    /\ Delivered
    /\ LET name == TrimSuffix(d, AIAParentSuffix)
           answered(w, queried) ==
               [Answered("aia", Returned(w)) EXCEPT
                    !.domain = d, !.pubsha256 = h, !.queried = queried,
                    !.outcome = IF queried THEN o ELSE NoOutcome]
       IN IF d = RootCAName
          THEN /\ resp' = answered(WriteString(NewWriter, <<DerTok(ca.rootCert)>>), FALSE)
               /\ UNCHANGED synthLog
          ELSE IF d = TLDCAName
          THEN /\ resp' = answered(WriteString(NewWriter, <<DerTok(ca.tldCert)>>), FALSE)
               /\ UNCHANGED synthLog
          ELSE IF ContainsSpace(name)
          THEN /\ resp' = answered(WriteHeader(NewWriter, "404"), FALSE)
               /\ UNCHANGED synthLog
          ELSE /\ resp' = answered(aiaAnswer(name, h, o, ca.tldCert), TRUE)
               /\ synthLog' = synthLog \cup
                      { [der |-> tok.bytes, rcode |-> o.rcode, ad |-> o.ad, aa |-> o.aa] :
                            tok \in Range(aiaAnswer(name, h, o, ca.tldCert).body) }
    /\ UNCHANGED <<now, ca, caches, lookups, signs, inserts, pops, nSynth, nSign, signed>>

\* ----------------------------------------------------------- /cross-sign-ca

CertA == Der("cert", <<"A">>, <<5>>, <<"Old", " ", "CA">>, 7, 0)
CertB == Der("cert", <<"B">>, <<6>>, <<"Other", " ", "CA">>, 7, 0)
CertLax == Der("laxcert", <<"L">>, <<8>>, <<"Old", " ", "CA">>, 12, 0)
SignerCert == Der("cert", <<"Negative", " ", "CA">>, <<9>>, RootCAName, 3, 0)
SignerECKey == Der("eckey", <<>>, <<9>>, <<>>, 0, 0)
SignerP8Key == Der("p8key", <<>>, <<9>>, <<>>, 0, 0)

PemA == <<PemTok("CERTIFICATE", CertA)>>
PemAText == <<TxtTok, PemTok("CERTIFICATE", CertA)>>    \* the same certificate after other text
PemB == <<PemTok("CERTIFICATE", CertB)>>                \* another issuer's certificate, same serial
PemLax == <<PemTok("CERTIFICATE", CertLax)>>
PemSigner == <<PemTok("CERTIFICATE", SignerCert)>>
PemECKey == <<PemTok("EC PRIVATE KEY", SignerECKey)>>
PemP8Key == <<PemTok("PRIVATE KEY", SignerP8Key)>>
NoPem == <<TxtTok>>                                     \* a field that holds no PEM block

Triple(toSign, signerCert, signerKey) ==
    [toSign |-> toSign, signerCert |-> signerCert, signerKey |-> signerKey]

\* The (to-sign, signer-cert, signer-key) form fields that requests carry.
Triples ==
    { Triple(PemA, PemSigner, PemECKey), Triple(PemAText, PemSigner, PemECKey),
      Triple(PemB, PemSigner, PemECKey), Triple(PemLax, PemSigner, PemECKey),
      Triple(NoPem, PemSigner, PemECKey), Triple(PemA, NoPem, PemECKey),
      Triple(PemA, PemECKey, PemECKey), Triple(PemA, PemSigner, PemP8Key),
      Triple(PemA, PemSigner, NoPem) }

\* hex(sha256(toSign + "\n\n" + signerCert + "\n\n" + signerKey + "\n\n")): the
\* hashed text stands for its digest.
crossSignCacheKey(tr) ==
    tr.toSign \o <<NLTok>> \o tr.signerCert \o <<NLTok>> \o tr.signerKey \o <<NLTok>>

IdleSign == [pc |-> "idle", triple |-> NoTriple, result |-> <<>>, serial |-> <<>>]

\* crossSignCAHandler after a cache miss, up to cacheNegativeCert: what it
\* does with the three fields.  n numbers the CrossSign call.
\*   "panic"  a nil block is dereferenced
\*   "return" the key does not parse, or CrossSign fails
\*   "cached" the result is written and cached, its serial extracted
\*   "cached-panic" the result is written and cached, but does not parse as a
\*            certificate, and resultParsed.SerialNumber dereferences nil
crossSign(tr, n) ==
    LET toSignBlock == PemDecode(tr.toSign)
        signerCertBlock == PemDecode(tr.signerCert)
        signerKeyBlock == PemDecode(tr.signerKey)
        signedDer == CrossSign(toSignBlock.bytes, signerCertBlock.bytes, n)
        resultPEMString == PemEncodeToMemory("CERTIFICATE", signedDer.der)
        none == [end |-> "return", invoked |-> FALSE, result |-> <<>>, serial |-> <<>>]
    IN IF signerKeyBlock.nil THEN [none EXCEPT !.end = "panic"]
       ELSE IF ~ ParseECPrivateKeyOk(signerKeyBlock.bytes) THEN none
       ELSE IF toSignBlock.nil \/ signerCertBlock.nil THEN [none EXCEPT !.end = "panic"]
       ELSE IF signedDer.err THEN [none EXCEPT !.invoked = TRUE]
       ELSE IF ~ ParseCertificateOk(signedDer.der)
       THEN [end |-> "cached-panic", invoked |-> TRUE, result |-> resultPEMString,
             serial |-> <<>>]
       ELSE [end |-> "cached", invoked |-> TRUE, result |-> resultPEMString,
             serial |-> DecimalString(signedDer.der.serial)]

\* crossSignCAHandler up to the cache probe.
CrossSignStart(s, tr) ==
    /\ UNCHANGED lockVars
    /\ Delivered
    /\ signs[s].pc = "idle"
    /\ LET got == getCachedNegativeCerts(negativeCertCache, crossSignCacheKey(tr))
       IN IF ~ got.needRefresh
          THEN /\ resp' = [Answered("cross-sign", Returned(WriteString(NewWriter, got.results)))
                               EXCEPT !.triple = tr, !.probed = TRUE, !.hit = TRUE]
               /\ UNCHANGED signs
          ELSE /\ signs' = [signs EXCEPT ![s] = [IdleSign EXCEPT !.pc = "sign", !.triple = tr]]
               /\ resp' = NoResponse
    /\ UNCHANGED <<now, ca, caches, lookups, inserts, pops, nSynth, nSign, synthLog, signed>>

\* crossSignCAHandler after a miss: decode, parse, sign, write the result and
\* insert it into the negative cache.
CrossSignSign(s) ==
    /\ UNCHANGED lockVars
    /\ Delivered
    /\ signs[s].pc = "sign"
    /\ nSign < MaxSign
    /\ LET tr == signs[s].triple
           got == crossSign(tr, nSign + 1)
           answered(w) ==
               [Answered("cross-sign", w) EXCEPT
                    !.triple = tr, !.probed = TRUE, !.invoked = got.invoked]
       IN /\ nSign' = IF got.invoked THEN nSign + 1 ELSE nSign
          /\ IF got.end = "panic"
             THEN /\ resp' = answered(Panicked(NewWriter))
                  /\ signs' = [signs EXCEPT ![s] = IdleSign]
                  /\ UNCHANGED negativeCertCache
             ELSE IF got.end = "return"
             THEN /\ resp' = answered(Returned(NewWriter))
                  /\ signs' = [signs EXCEPT ![s] = IdleSign]
                  /\ UNCHANGED negativeCertCache
             ELSE IF got.end = "cached-panic"
             THEN /\ resp' = answered(Panicked(WriteString(NewWriter, got.result)))
                  /\ signs' = [signs EXCEPT ![s] = IdleSign]
                  /\ negativeCertCache' =
                         cacheNegativeCert(negativeCertCache, crossSignCacheKey(tr),
                                           got.result, now)
             ELSE /\ signs' = [signs EXCEPT ![s] =
                          [pc |-> "original", triple |-> tr, result |-> got.result,
                           serial |-> got.serial]]
                  /\ negativeCertCache' =
                         cacheNegativeCert(negativeCertCache, crossSignCacheKey(tr),
                                           got.result, now)
                  /\ resp' = NoResponse
    /\ UNCHANGED <<now, ca, domainCertCache, originalCertCache, lookups, inserts, pops,
                   nSynth, synthLog, signed>>

\* crossSignCAHandler's last call: insert the to-sign text into the original
\* cache under the result's serial, and return.
CrossSignCacheOriginal(s) ==
    /\ UNCHANGED lockVars
    /\ Delivered
    /\ signs[s].pc = "original"
    /\ LET c == signs[s]
       IN /\ originalCertCache' =
                 cacheOriginalFromSerial(originalCertCache, c.serial, c.triple.toSign, now)
          /\ resp' = [Answered("cross-sign", Returned(WriteString(NewWriter, c.result)))
                          EXCEPT !.triple = c.triple, !.probed = TRUE, !.invoked = TRUE,
                                 !.serial = c.serial]
          /\ signed' = signed \cup
                 { [triple |-> c.triple, serial |-> c.serial, body |-> c.result] }
    /\ signs' = [signs EXCEPT ![s] = IdleSign]
    /\ UNCHANGED <<now, ca, domainCertCache, negativeCertCache, lookups, inserts, pops,
                   nSynth, nSign, synthLog>>

\* ---------------------------------------------------- /original-from-serial

\* The values of the "serial" form field that requests carry.
Serials == { <<"7">>, <<"0", "7">>, <<"1", "2">>, <<"9">> }

OriginalFromSerial(serial) ==
    /\ UNCHANGED lockVars
    /\ Delivered
    /\ LET got == getCachedOriginalFromSerial(originalCertCache, serial)
           w == IF ~ got.needRefresh THEN WriteString(NewWriter, got.results) ELSE NewWriter
       IN resp' = [Answered("original-from-serial", Returned(w)) EXCEPT
                       !.serial = serial, !.probed = TRUE, !.hit = ~ got.needRefresh]
    /\ UNCHANGED <<now, ca, caches, lookups, signs, inserts, pops, nSynth, nSign, synthLog,
                   signed>>

\* ----------------------------------------------------- /get-new-negative-ca

\* safetlsa.GenerateTLDExclusionCA("bit", rootCert, rootPriv): a new P-256 key
\* and a CA certificate for it under the root; k stands for the key drawn.
GenerateTLDExclusionCA(k, rootCert) ==
    [cert |-> Der("cert", <<"Exclusion", " ", "CA">>, <<k>>, rootCert.subject, k, k),
     priv |-> Der("eckey", <<>>, <<k>>, <<>>, 0, k)]

\* getNewNegativeCAHandler keeping the certificate it made in the negative cache.
GetNewNegativeCAPersisting(k) ==
    /\ UNCHANGED lockVars
    /\ Delivered
    /\ LET ex == GenerateTLDExclusionCA(k, ca.rootCert)
           w1 == WriteString(NewWriter, PemEncodeToMemory("CERTIFICATE", ex.cert))
           w2 == WriteString(w1, <<NLTok>>)
           w3 == WriteString(w2, PemEncodeToMemory("EC PRIVATE KEY", ex.priv))
       IN /\ resp' = Answered("get-new-negative-ca", Returned(w3))
          /\ negativeCertCache' =
                 cacheNegativeCert(negativeCertCache, <<TxtTok>>,
                                   PemEncodeToMemory("CERTIFICATE", ex.cert), now)
    /\ UNCHANGED <<now, ca, domainCertCache, originalCertCache, lookups, signs, inserts,
                   pops, nSynth, nSign, synthLog, signed>>

GetNewNegativeCA(k) ==
    /\ UNCHANGED lockVars
    /\ Delivered
    /\ LET ex == GenerateTLDExclusionCA(k, ca.rootCert)
           w1 == WriteString(NewWriter, PemEncodeToMemory("CERTIFICATE", ex.cert))
           w2 == WriteString(w1, <<NLTok>>)
           w3 == WriteString(w2, PemEncodeToMemory("EC PRIVATE KEY", ex.priv))
       IN resp' = Answered("get-new-negative-ca", Returned(w3))
    /\ UNCHANGED <<now, ca, caches, lookups, signs, inserts, pops, nSynth, nSign, synthLog,
                   signed>>

\* net/http sends the response of the handler that returned.
Deliver ==
    /\ UNCHANGED lockVars
    /\ ~ Delivered
    /\ resp' = NoResponse
    /\ UNCHANGED <<now, ca, caches, lookups, signs, inserts, pops, nSynth, nSign, synthLog,
                   signed>>

\* ------------------------------------------------------------- cache locks

\* The cache functions at the grain of their statements.  Each cache has a
\* sync.RWMutex; a function is a sequence of operations on it, and a handler
\* or goroutine is a sequence of function calls and of blocking calls (the
\* DNS query, GetCertFromTLSA, CrossSign, an HTTP write, time.Sleep).  The
\* actions above take each cache function as one step.

NumThreads == 3     \* handlers and goroutines that run at once
Threads == 1..NumThreads

Mutexes == {"domain", "negative", "original"}

Op(op, m) == [op |-> op, mu |-> m]
Blocking == Op("IO", "none")

\* getCachedDomainCerts, getCachedNegativeCerts, getCachedOriginalFromSerial
getCachedOps(m) == <<Op("RLock", m), Op("Read", m), Op("RUnlock", m)>>

\* cacheDomainCert without its Lock and Unlock.
cacheOpsUnlocked(m) == <<Op("Write", m)>>

\* cacheDomainCert, cacheNegativeCert, cacheOriginalFromSerial, and
\* popCachedDomainCertLater after its sleep
cacheOps(m) == <<Op("Lock", m), Op("Write", m), Op("Unlock", m)>>

lookupHandlerOps == getCachedOps("domain") \o <<Blocking, Blocking, Blocking>>
cacheDomainCertOps == cacheOps("domain")
popCachedDomainCertLaterOps == <<Blocking>> \o cacheOps("domain")
aiaHandlerOps == <<Blocking, Blocking, Blocking>>
getNewNegativeCAHandlerOps == <<Blocking, Blocking>>
crossSignCAHandlerOps ==
    getCachedOps("negative") \o <<Blocking, Blocking>> \o cacheOps("negative")
        \o cacheOps("original")
originalFromSerialHandlerOps == getCachedOps("original") \o <<Blocking>>

Programs ==
    { lookupHandlerOps, cacheDomainCertOps, popCachedDomainCertLaterOps, aiaHandlerOps,
      getNewNegativeCAHandlerOps, crossSignCAHandlerOps, originalFromSerialHandlerOps }

\* A thread: the operations it has still to do, the mutexes it holds, and
\* where it is within a Lock ("waiting") or within a write ("writing").
IdleThread == [prog |-> <<>>, held |-> {}, phase |-> ""]

\* The thread's next operation is op.
At(t, op) == threads[t].prog # <<>> /\ Head(threads[t].prog).op = op
NextMu(t) == Head(threads[t].prog).mu
Advance(t, held) ==
    threads' = [threads EXCEPT ![t] = [prog |-> Tail(threads[t].prog), held |-> held,
                                       phase |-> ""]]

\* A request arrives or a goroutine is started.
StartThread(t, p) ==
    /\ UNCHANGED serverVars
    /\ threads[t] = IdleThread
    /\ threads' = [threads EXCEPT ![t].prog = p]
    /\ UNCHANGED <<mu, dirty>>

\* RWMutex.RLock: waits while a writer holds the mutex or waits for it.
RLock(t) ==
    /\ UNCHANGED serverVars
    /\ At(t, "RLock")
    /\ ~ mu[NextMu(t)].writer /\ mu[NextMu(t)].pending = 0
    /\ mu' = [mu EXCEPT ![NextMu(t)].readers = @ + 1]
    /\ Advance(t, threads[t].held \cup {NextMu(t)})
    /\ UNCHANGED dirty

RUnlock(t) ==
    /\ UNCHANGED serverVars
    /\ At(t, "RUnlock")
    /\ mu' = [mu EXCEPT ![NextMu(t)].readers = @ - 1]
    /\ Advance(t, threads[t].held \ {NextMu(t)})
    /\ UNCHANGED dirty

\* RWMutex.Lock: announces the writer, which keeps new readers out, ...
LockRequest(t) ==
    /\ UNCHANGED serverVars
    /\ At(t, "Lock") /\ threads[t].phase = ""
    /\ mu' = [mu EXCEPT ![NextMu(t)].pending = @ + 1]
    /\ threads' = [threads EXCEPT ![t].phase = "waiting"]
    /\ UNCHANGED dirty

\* ... and returns once no reader and no writer holds the mutex.
LockAcquire(t) ==
    /\ UNCHANGED serverVars
    /\ At(t, "Lock") /\ threads[t].phase = "waiting"
    /\ ~ mu[NextMu(t)].writer /\ mu[NextMu(t)].readers = 0
    /\ mu' = [mu EXCEPT ![NextMu(t)].pending = @ - 1, ![NextMu(t)].writer = TRUE]
    /\ Advance(t, threads[t].held \cup {NextMu(t)})
    /\ UNCHANGED dirty

Unlock(t) ==
    /\ UNCHANGED serverVars
    /\ At(t, "Unlock")
    /\ mu' = [mu EXCEPT ![NextMu(t)].writer = FALSE]
    /\ Advance(t, threads[t].held \ {NextMu(t)})
    /\ UNCHANGED dirty

\* The loop over the key's slice.
ReadCache(t) ==
    /\ UNCHANGED serverVars
    /\ At(t, "Read")
    /\ Advance(t, threads[t].held)
    /\ UNCHANGED <<mu, dirty>>

\* The assignment to the map: the slice header and the entry's fields are
\* written one after the other, with the cache half-written in between.
WriteBegin(t) ==
    /\ UNCHANGED serverVars
    /\ At(t, "Write") /\ threads[t].phase = ""
    /\ dirty' = [dirty EXCEPT ![NextMu(t)] = @ + 1]
    /\ threads' = [threads EXCEPT ![t].phase = "writing"]
    /\ UNCHANGED mu

WriteEnd(t) ==
    /\ UNCHANGED serverVars
    /\ At(t, "Write") /\ threads[t].phase = "writing"
    /\ dirty' = [dirty EXCEPT ![NextMu(t)] = @ - 1]
    /\ Advance(t, threads[t].held)
    /\ UNCHANGED mu

\* A DNS query, a synthesis or cross-sign call, an HTTP write or a sleep.
BlockingCall(t) ==
    /\ UNCHANGED serverVars
    /\ At(t, "IO")
    /\ Advance(t, threads[t].held)
    /\ UNCHANGED <<mu, dirty>>

\* Thread t can take a step.
CanStep(t) ==
    \/ At(t, "RLock") /\ ~ mu[NextMu(t)].writer /\ mu[NextMu(t)].pending = 0
    \/ At(t, "Lock") /\ threads[t].phase = ""
    \/ At(t, "Lock") /\ ~ mu[NextMu(t)].writer /\ mu[NextMu(t)].readers = 0
    \/ At(t, "RUnlock") \/ At(t, "Unlock") \/ At(t, "Read") \/ At(t, "Write") \/ At(t, "IO")

\* --------------------------------------------------------- specifications

\* The "domain" and "pubsha256" values and the DNS answers of the /aia requests
\* that run beside /lookup requests.
AiaDomainsBeside == { TLDCAName, <<"a.bit">> }
AiaPubShasBeside == { <<"2", "a">>, <<"f", "f">> }
AiaOutcomesBeside ==
    { Outcome(FALSE, FALSE, "SERVFAIL", TRUE, TRUE, <<TlsaCA>>),
      Outcome(FALSE, FALSE, "NXDOMAIN", TRUE, TRUE, <<TlsaCA>>),
      Outcome(FALSE, FALSE, "NOERROR", FALSE, FALSE, <<TlsaCA>>),
      Outcome(FALSE, FALSE, "NOERROR", FALSE, TRUE, <<TlsaCA>>),
      Outcome(FALSE, FALSE, "NOERROR", TRUE, FALSE, <<TlsaCA>>) }

\* The "domain" values and the DNS answers of the /lookup requests that run
\* beside /aia requests.
LookupDomainsBeside == { RootCAName, <<"a.bit">>, <<"a.bit">> \o DomainCASuffix }
LookupOutcomesBeside == AiaOutcomesBeside

Init ==
    /\ now = 0
    /\ ca = NewCA
    /\ domainCertCache = EmptyMap
    /\ negativeCertCache = EmptyMap
    /\ originalCertCache = EmptyMap
    /\ lookups = [s \in Slots |-> IdleLookup]
    /\ signs = [s \in Slots |-> IdleSign]
    /\ inserts = EmptyBag
    /\ pops = EmptyBag
    /\ nSynth = 0
    /\ nSign = 0
    /\ synthLog = {}
    /\ signed = {}
    /\ resp = NoResponse
    /\ mu = [m \in Mutexes |-> [readers |-> 0, writer |-> FALSE, pending |-> 0]]
    /\ threads = [t \in Threads |-> IdleThread]
    /\ dirty = [m \in Mutexes |-> 0]

\* /lookup with its goroutines and the clock
NextLookup ==
    \/ \E s \in Slots, d \in Domains : LookupStart(s, d)
    \/ \E s \in Slots, o \in DnsOutcomes : LookupResolve(s, o)
    \/ \E t \in BagToSet(inserts) : CacheDomainCertTask(t)
    \/ \E t \in BagToSet(pops) : PopCachedDomainCertTask(t)
    \/ Tick
    \/ Deliver

\* /aia
NextAia ==
    \/ \E d \in Domains, h \in PubShas, o \in DnsOutcomes : Aia(d, h, o)
    \/ Deliver

\* /lookup with its goroutines and the clock, beside /aia
NextDane ==
    \/ \E s \in Slots, d \in LookupDomainsBeside : LookupStart(s, d)
    \/ \E s \in Slots, o \in LookupOutcomesBeside : LookupResolve(s, o)
    \/ \E t \in BagToSet(inserts) : CacheDomainCertTask(t)
    \/ \E t \in BagToSet(pops) : PopCachedDomainCertTask(t)
    \/ Tick
    \/ \E d \in AiaDomainsBeside, h \in AiaPubShasBeside, o \in AiaOutcomesBeside :
           Aia(d, h, o)
    \/ Deliver

\* /cross-sign-ca and /original-from-serial
NextSign ==
    \/ \E s \in Slots, tr \in Triples : CrossSignStart(s, tr)
    \/ \E s \in Slots : CrossSignSign(s)
    \/ \E s \in Slots : CrossSignCacheOriginal(s)
    \/ \E serial \in Serials : OriginalFromSerial(serial)
    \/ Deliver

\* every handler
Next ==
    \/ NextLookup
    \/ NextAia
    \/ NextSign
    \/ \E k \in {20, 21} : GetNewNegativeCA(k)

Spec == Init /\ [][Next]_vars
SpecLookup == Init /\ [][NextLookup]_vars
SpecAia == Init /\ [][NextAia]_vars
SpecDane == Init /\ [][NextDane]_vars
SpecSign == Init /\ [][NextSign]_vars

\* The requests of the specification that runs every handler: a few of each
\* kind.  The one trusted DNS answer that yields certificates yields two.
ServerLookupDomains ==
    { RootCAName, <<"a.bit">>, <<"a.bit">> \o AIAParentSuffix, <<"Some", " ", "CA">> }
ServerAiaDomains ==
    { TLDCAName, <<"a.bit">>, <<"a.bit">> \o DomainCASuffix, <<"Some", " ", "CA">> }
ServerPubShas == { <<"2", "a">>, <<"z", "z">> }
ServerOutcomes ==
    { Outcome(TRUE, FALSE, "", FALSE, FALSE, <<>>),
      Outcome(FALSE, FALSE, "SERVFAIL", TRUE, TRUE, <<TlsaCA>>),
      Outcome(FALSE, FALSE, "NXDOMAIN", TRUE, TRUE, <<TlsaCA>>),
      Outcome(FALSE, FALSE, "NOERROR", FALSE, FALSE, <<TlsaCA>>),
      Outcome(FALSE, FALSE, "NOERROR", TRUE, FALSE, <<TlsaRejected>>),
      Outcome(FALSE, FALSE, "NOERROR", TRUE, FALSE, <<NonTlsa, TlsaBadHex, TlsaEE, TlsaCA>>) }
ServerTriples ==
    { Triple(PemA, PemSigner, PemECKey), Triple(PemA, PemECKey, PemECKey),
      Triple(PemA, PemSigner, NoPem) }
ServerSerials == { <<"7">>, <<"9">> }

\* One /lookup and one /cross-sign-ca handler are in flight at a time.
ServerSlots == {1}

NextServer ==
    \/ \E s \in ServerSlots, d \in ServerLookupDomains : LookupStart(s, d)
    \/ \E s \in ServerSlots, o \in ServerOutcomes : LookupResolve(s, o)
    \/ \E t \in BagToSet(inserts) : CacheDomainCertTask(t)
    \/ \E t \in BagToSet(pops) : PopCachedDomainCertTask(t)
    \/ Tick
    \/ \E d \in ServerAiaDomains, h \in ServerPubShas, o \in ServerOutcomes : Aia(d, h, o)
    \/ \E s \in ServerSlots, tr \in ServerTriples : CrossSignStart(s, tr)
    \/ \E s \in ServerSlots : CrossSignSign(s)
    \/ \E s \in ServerSlots : CrossSignCacheOriginal(s)
    \/ \E serial \in ServerSerials : OriginalFromSerial(serial)
    \/ GetNewNegativeCA(20)
    \/ Deliver

SpecServer == Init /\ [][NextServer]_vars

\* the cache functions step by step, in handlers and goroutines that run at once
NextLocks ==
    \/ \E t \in Threads, p \in Programs : StartThread(t, p)
    \/ \E t \in Threads : RLock(t)
    \/ \E t \in Threads : RUnlock(t)
    \/ \E t \in Threads : LockRequest(t)
    \/ \E t \in Threads : LockAcquire(t)
    \/ \E t \in Threads : Unlock(t)
    \/ \E t \in Threads : ReadCache(t)
    \/ \E t \in Threads : WriteBegin(t)
    \/ \E t \in Threads : WriteEnd(t)
    \/ \E t \in Threads : BlockingCall(t)

SpecLocks == Init /\ [][NextLocks]_vars

\* /lookup with its goroutines and the clock, where what can run again and
\* again does run, however many requests arrive in between: a goroutine that
\* is runnable is scheduled, a sleeping one wakes once its time has come, the
\* clock advances, a DNS query returns, a response goes out.  No request has
\* to arrive.
SpecLookupFair ==
    /\ SpecLookup
    /\ SF_vars(\E t \in BagToSet(inserts) : CacheDomainCertTask(t))
    /\ SF_vars(\E t \in BagToSet(pops) : PopCachedDomainCertTask(t))
    /\ SF_vars(Tick)
    /\ SF_vars(\E s \in Slots, o \in DnsOutcomes : LookupResolve(s, o))
    /\ SF_vars(Deliver)

\* ------------------------------------------------------------------ claims

\* RCODE=NOERROR with the AD flag and the Authoritative flag both cleared
UnauthenticatedAnswer(o) ==
    ~ o.err /\ ~ o.isNil /\ o.rcode = "NOERROR" /\ ~ o.ad /\ ~ o.aa

\* The certificates that a text carries, as PEM blocks or as raw DER.
CertsIn(text) == { tok.bytes : tok \in { x \in Range(text) : x.kind \in {"PEM", "DER"} } }

\* The certificates held in the domain cache.
CachedDomainCerts ==
    UNION { CertsIn(e.certPem) :
                e \in UNION { Range(domainCertCache[k]) : k \in DOMAIN domainCertCache } }

\* C1: a /lookup request that missed the fresh-cache check and whose DNS
\* answer is NOERROR with AD and Authoritative both cleared returns an empty
\* body, synthesises no certificate, starts no goroutine and leaves the three
\* caches as they were, whatever records the answer carries.
C1_UnauthenticatedLookupIsEmpty ==
    [][ \A s \in Slots :
            ( /\ lookups[s].pc = "dns"
              /\ lookups'[s].pc = "idle"
              /\ UnauthenticatedAnswer(resp'.outcome) )
            => /\ resp'.kind = "lookup"
               /\ resp'.body = <<>>
               /\ resp'.spawned = 0
               /\ nSynth' = nSynth
               /\ synthLog' = synthLog
               /\ inserts' = inserts
               /\ pops' = pops
               /\ caches' = caches ]_vars

C1_Witness ==
    /\ resp.kind = "lookup"
    /\ resp.queried
    /\ UnauthenticatedAnswer(resp.outcome)
    /\ resp.outcome.answer = <<TlsaCA>>
    /\ domainCertCache # EmptyMap

\* C2: every certificate that was synthesised came from a DNS answer with
\* RCODE=NOERROR and AD or Authoritative set, and every certificate in the
\* domain cache, on its way into it, or in the body of a /lookup or /aia
\* response (the CA certificates of the special names aside) is one of those.
C2_OnlyTrustedAnswersAreSynthesised ==
    /\ \A e \in synthLog : e.rcode = "NOERROR" /\ (e.ad \/ e.aa)
    /\ CachedDomainCerts \subseteq { e.der : e \in synthLog }
    /\ \A t \in BagToSet(inserts) : CertsIn(t.certPem) \subseteq { e.der : e \in synthLog }
    /\ resp.kind \in {"lookup", "aia"} /\ resp.domain \notin {RootCAName, TLDCAName}
           => CertsIn(resp.body) \subseteq { e.der : e \in synthLog }

C2_Witness ==
    /\ resp.kind = "lookup"
    /\ resp.hit
    /\ resp.body # <<>>
    /\ \E e \in synthLog : ~ e.ad
    /\ \E e \in synthLog : ~ e.aa

\* C3: /lookup for "Namecoin Root CA" returns exactly the content of the root
\* certificate file read at start, issues no DNS query, reads no cache and
\* changes nothing but the response, in every state of the server.
C3_RootLookupShortCircuit ==
    [][ ( Delivered /\ resp'.kind = "lookup" /\ resp'.domain = RootCAName )
            => /\ resp'.body = RootCertFile
               /\ resp'.status = "200"
               /\ ~ resp'.queried
               /\ ~ resp'.probed
               /\ ~ resp'.hit
               /\ UNCHANGED <<now, ca, caches, lookups, signs, inserts, pops, nSynth, nSign,
                              synthLog, signed>> ]_vars

C3_Witness ==
    /\ resp.kind = "lookup"
    /\ resp.domain = RootCAName
    /\ domainCertCache # EmptyMap
    /\ \E s \in Slots : lookups[s].pc = "dns"

\* The entries of the key put less than a minute before time t: put stamps an
\* entry with the time of the put plus two minutes.
YoungEntries(cache, k, t) ==
    { i \in 1..Len(MapGet(cache, k)) :
          t < (MapGet(cache, k)[i].expiration - CertTTL) + FreshMargin }

\* C4: an entry put into the domain cache at time t stays in it, and get
\* answers need_refresh = false for its key, at every time before t + 60s; from
\* t + 120s on the entry no longer makes the key fresh.
C4_EntryServedForAMinute ==
    [][ \A k \in DOMAIN domainCertCache :
            /\ Cardinality(YoungEntries(domainCertCache', k, now'))
                   >= Cardinality(YoungEntries(domainCertCache, k, now'))
            /\ YoungEntries(domainCertCache, k, now') # {}
                   => ~ getCachedDomainCerts(domainCertCache', k, now').needRefresh
            /\ \A i \in 1..Len(domainCertCache[k]) :
                   now >= domainCertCache[k][i].expiration
                       => ~ DomainCertFresh(domainCertCache[k][i], now) ]_vars

\* C5: of two /cross-sign-ca requests with the same three fields, one after
\* the other, the first of which signed and returned body P, the second
\* returns exactly P and does not call CrossSign.
C5_SecondCrossSignReturnsSameBody ==
    ( /\ resp.kind = "cross-sign"
      /\ resp.hit
      /\ \A s \in Slots : signs[s].pc = "idle"
      /\ \E g \in signed : g.triple = resp.triple )
    => /\ \E g \in signed : g.triple = resp.triple /\ resp.body = g.body
       /\ ~ resp.invoked

\* C6: after /cross-sign-ca requests have returned, /original-from-serial for
\* serial S returns exactly the to-sign text of a request whose result has
\* serial S, with nothing added, and an empty body when there is none.
C6_OriginalFromSerialRoundTrip ==
    ( /\ resp.kind = "original-from-serial"
      /\ \A s \in Slots : signs[s].pc = "idle" )
    => IF \E g \in signed : g.serial = resp.serial
       THEN \E g \in signed : g.serial = resp.serial /\ resp.body = g.triple.toSign
       ELSE resp.body = <<>>

\* C7: once a key of the negative cache is present its first entry never
\* changes; a request that starts while its key is present is answered with
\* that first entry, without signing; and the key of every request that
\* signed and returned is present.  So after two concurrent requests with the
\* same three fields, each of which may have appended its own result, every
\* later request with those fields gets one and the same result.
C7_ConcurrentCrossSignConverges ==
    [][ /\ \A k \in DOMAIN negativeCertCache :
               /\ k \in DOMAIN negativeCertCache'
               /\ negativeCertCache'[k][1] = negativeCertCache[k][1]
        /\ \A g \in signed' : crossSignCacheKey(g.triple) \in DOMAIN negativeCertCache'
        /\ \A s \in Slots :
               (signs[s].pc = "idle" /\ signs'[s].pc = "sign")
                   => crossSignCacheKey(signs'[s].triple) \notin DOMAIN negativeCertCache
        /\ (Delivered /\ resp'.kind = "cross-sign" /\ resp'.hit)
               => /\ crossSignCacheKey(resp'.triple) \in DOMAIN negativeCertCache
                  /\ ~ resp'.invoked
                  /\ resp'.body =
                         negativeCertCache[crossSignCacheKey(resp'.triple)][1].certPem
                             \o <<NLTok>> ]_vars

C7_Witness ==
    /\ resp.kind = "cross-sign"
    /\ resp.hit
    /\ Len(MapGet(negativeCertCache, crossSignCacheKey(resp.triple))) = 2
    /\ Cardinality({ g \in signed : g.triple = resp.triple }) = 2

\* A record in the Namecoin CA form whose key hashes to the bytes that the
\* hex string h stands for.
RecordMatches(rr, h) ==
    /\ rr.rrtype = "TLSA" /\ rr.usage = 2 /\ rr.selector = 1 /\ rr.mtype = 0
    /\ HexValid(rr.certificate) /\ HexValid(h)
    /\ Sum256(HexBytes(rr.certificate)) = HexBytes(h)

\* C8: an /aia request for a domain that is no special name, whose trusted
\* DNS answer holds no record in the Namecoin CA form that hashes to
\* pubsha256, is answered 404.
C8_AiaNoMatchIs404 ==
    ( /\ resp.kind = "aia"
      /\ resp.queried
      /\ resp.outcome.rcode = "NOERROR"
      /\ resp.outcome.ad \/ resp.outcome.aa
      /\ ~ \E i \in 1..Len(resp.outcome.answer) :
               RecordMatches(resp.outcome.answer[i], resp.pubsha256) )
    => resp.status = "404"

\* C9 as stated: every /aia request whose pubsha256 is not valid hex is
\* answered 404, for every domain and every DNS outcome.
C9_MalformedHashAlways404 ==
    (resp.kind = "aia" /\ ~ HexValid(resp.pubsha256)) => resp.status = "404"

\* C9, amended: an /aia request whose pubsha256 is not valid hex is answered
\* 200 with the CA certificate when the domain is a special name, 500 when
\* its DNS query failed (error, nil response, rcode other than NOERROR and
\* NXDOMAIN), and 404 with an empty body in every other case.
C9_MalformedHash404AfterDispatchAndDns ==
    (resp.kind = "aia" /\ ~ HexValid(resp.pubsha256))
    => IF resp.domain = RootCAName
       THEN resp.status = "200" /\ resp.body = <<DerTok(RootCertDer)>>
       ELSE IF resp.domain = TLDCAName
       THEN resp.status = "200" /\ resp.body = <<DerTok(GenerateTLDCA)>>
       ELSE IF /\ resp.queried
               /\ \/ resp.outcome.err
                  \/ resp.outcome.isNil
                  \/ resp.outcome.rcode \notin {"NOERROR", "NXDOMAIN"}
       THEN resp.status = "500" /\ resp.body = <<>>
       ELSE resp.status = "404" /\ resp.body = <<>>

C9_Witness ==
    /\ resp.kind = "aia"
    /\ ~ HexValid(resp.pubsha256)
    /\ resp.queried
    /\ resp.outcome.rcode = "NOERROR"
    /\ resp.outcome.ad
    /\ resp.outcome.answer = <<TlsaCA>>
    /\ resp.status = "404"

\* C10 as stated: for every domain, the special names included, and every hex
\* string H, a non-empty /aia body is a certificate whose subject public key
\* has SHA-256 H.
C10_AiaBodyKeyMatchesHash ==
    (resp.kind = "aia" /\ HexValid(resp.pubsha256) /\ resp.body # <<>>)
    => /\ Len(resp.body) = 1
       /\ Sum256(resp.body[1].bytes.spki) = HexBytes(resp.pubsha256)

\* C10, amended: for every domain other than the two special names, a
\* non-empty /aia body is one DER certificate, issued for a pubsha256 that is
\* valid hex, whose subject public key has SHA-256 equal to the bytes of
\* pubsha256.
C10_AiaBodyKeyMatchesHashUnlessSpecial ==
    (resp.kind = "aia" /\ resp.domain \notin {RootCAName, TLDCAName} /\ resp.body # <<>>)
    => /\ HexValid(resp.pubsha256)
       /\ Len(resp.body) = 1
       /\ resp.body[1].kind = "DER"
       /\ Sum256(resp.body[1].bytes.spki) = HexBytes(resp.pubsha256)

C10_Witness ==
    /\ resp.kind = "aia"
    /\ resp.domain = <<"a.bit">> \o AIAParentSuffix
    /\ resp.pubsha256 = <<"2", "A">>
    /\ resp.outcome.answer = <<NonTlsa, TlsaBadHex, TlsaEE, TlsaCA>>
    /\ resp.body # <<>>

\* A certificate issued by the TLD CA that the server holds in memory.
IssuedByTLDCA(der) == der.what = "cert" /\ der.issuer = ca.tldCert.subject

\* C11 as stated: for every domain, the special names included, every
\* certificate in the body of a /lookup response is issued by the in-memory
\* TLD CA.
C11_LookupCertsIssuedByTLDCA ==
    resp.kind = "lookup" => \A der \in CertsIn(resp.body) : IssuedByTLDCA(der)

\* C11, amended: for every domain other than the two special names, every
\* certificate in the body of a /lookup response, synthesised for this request
\* or read from the domain cache, is issued by the in-memory TLD CA; the
\* special names are answered with the root CA's and the TLD CA's own
\* certificates, which the root CA issued.
C11_LookupCertsIssuedByTLDCAUnlessSpecial ==
    /\ (resp.kind = "lookup" /\ resp.domain \notin {RootCAName, TLDCAName})
           => \A der \in CertsIn(resp.body) : IssuedByTLDCA(der)
    /\ (resp.kind = "lookup" /\ resp.domain \in {RootCAName, TLDCAName})
           => /\ CertsIn(resp.body) # {}
              /\ \A der \in CertsIn(resp.body) : der.issuer = ca.rootCert.subject

\* A refresh that wrote the stale cache text and a new certificate.
C11_Witness ==
    /\ resp.kind = "lookup"
    /\ resp.queried
    /\ resp.domain = <<"a.bit">>
    /\ Len(resp.body) >= 4
    /\ resp.body[1].kind = "PEM"

\* C13: a /cross-sign-ca request that missed the cache and failed (a field
\* without a PEM block, a signer key that is no EC key, an error from
\* CrossSign, a result that does not parse) returns normally with status 200
\* and an empty body, and leaves the negative and the original cache as they
\* were.  A handler that leaves "sign" for "idle" has failed: one that
\* succeeded goes on to cacheOriginalFromSerial.
C13_FailedCrossSignIsEmpty200 ==
    [][ \A s \in Slots :
            (signs[s].pc = "sign" /\ signs'[s].pc = "idle")
                => /\ resp'.kind = "cross-sign"
                   /\ resp'.status = "200"
                   /\ resp'.body = <<>>
                   /\ negativeCertCache' = negativeCertCache
                   /\ originalCertCache' = originalCertCache ]_vars

\* C15: the key that a /lookup request probes, its "domain" value, is the key
\* under which the cacheDomainCert goroutines that it starts insert its
\* certificates; so a /lookup for D that follows an insert made for D by less
\* than 60s is answered from the cache: a handler goes on to the DNS query
\* only when the key that its certificates will be inserted under holds no
\* entry younger than a minute.
C15_ProbeKeyIsInsertKey ==
    [][ /\ \A s \in Slots :
               (lookups[s].pc = "dns" /\ lookups'[s].pc = "idle")
                   => \A t \in BagToSet(inserts') :
                          CopiesIn(t, inserts') > CopiesIn(t, inserts)
                              => t.commonName = lookups[s].domain
        /\ \A s \in Slots :
               (lookups[s].pc = "idle" /\ lookups'[s].pc = "dns")
                   => YoungEntries(domainCertCache, lookups'[s].name, now) = {} ]_vars

\* The TLSA records of the answer that GetCertFromTLSA turns into a certificate.
Successes(name, answer) ==
    SelectSeq(answer,
              LAMBDA rr : rr.rrtype = "TLSA" /\ ~ GetCertFromTLSA(name, rr, ca.tldCert).err)

\* C16: on the refresh path of /lookup with a trusted NOERROR answer the body
\* is one block per record that was synthesised, in answer order, each block
\* the stale cache text read at the probe, then "\n\n", then the record's PEM;
\* with no such record, on NXDOMAIN and on an untrusted answer the body is
\* empty, whatever stale text there was.
C16_RefreshBodyRepeatsStaleText ==
    [][ \A s \in Slots :
            (lookups[s].pc = "dns" /\ lookups'[s].pc = "idle")
                => LET o == resp'.outcome
                       stale == lookups[s].cacheResults
                       ok == Successes(lookups[s].name, o.answer)
                       B == Len(stale) + 2
                   IN IF o.err \/ o.isNil \/ o.rcode \notin {"NOERROR", "NXDOMAIN"}
                      THEN TRUE
                      ELSE IF o.rcode = "NXDOMAIN" \/ (~ o.ad /\ ~ o.aa)
                      THEN resp'.body = <<>>
                      ELSE /\ Len(resp'.body) = Len(ok) * B
                           /\ \A i \in 1..Len(ok) :
                                  SubSeq(resp'.body, (i - 1) * B + 1, i * B) =
                                      stale \o <<NLTok>> \o
                                      PemEncodeToMemory("CERTIFICATE",
                                          GetCertFromTLSA(lookups[s].name, ok[i],
                                                          ca.tldCert).der) ]_vars

\* A refresh that found stale text and synthesised two certificates.
C16_Witness ==
    /\ resp.kind = "lookup"
    /\ resp.queried
    /\ Len(resp.body) = 8
    /\ resp.body[1].kind = "PEM"
    /\ SubSeq(resp.body, 1, 2) = SubSeq(resp.body, 5, 6)
    /\ resp.body[4] # resp.body[8]

\* C12: status 500 comes only from /lookup and /aia and only when the DNS
\* query failed (an error, a nil response, an rcode other than NOERROR and
\* NXDOMAIN); so NXDOMAIN, an untrusted answer, a record that fails to decode
\* or to synthesise, malformed input and a failed cross-sign give no 500; and
\* a 500 response has an empty body.
C12_Only500IsDnsFailure ==
    resp.status = "500"
        => /\ resp.kind \in {"lookup", "aia"}
           /\ resp.queried
           /\ \/ resp.outcome.err
              \/ resp.outcome.isNil
              \/ resp.outcome.rcode \notin {"NOERROR", "NXDOMAIN"}
           /\ resp.body = <<>>

\* A 500 from /lookup while the domain cache held entries, after CrossSign
\* was called.
C12_Witness ==
    /\ resp.kind = "lookup"
    /\ resp.status = "500"
    /\ resp.outcome.rcode = "SERVFAIL"
    /\ domainCertCache # EmptyMap
    /\ nSign > 0

\* C14: a domain that is no special name and holds a space after the
\* endpoint's suffix strip is answered without a DNS query and without a
\* change to a cache or a new goroutine, by /lookup with an empty body and by
\* /aia with status 404; and no handler waits for DNS with such a name.
C14_SpacedNameIsNotQueried ==
    [][ LET spaced(d, suffix) ==
                /\ d \notin {RootCAName, TLDCAName}
                /\ \E i \in 1..Len(TrimSuffix(d, suffix)) : TrimSuffix(d, suffix)[i] = " "
        IN /\ (resp'.kind = "lookup" /\ spaced(resp'.domain, DomainCASuffix))
                  => /\ ~ resp'.queried
                     /\ resp'.body = <<>>
                     /\ UNCHANGED <<caches, inserts, pops, lookups>>
           /\ (resp'.kind = "aia" /\ spaced(resp'.domain, AIAParentSuffix))
                  => /\ ~ resp'.queried
                     /\ resp'.status = "404"
                     /\ UNCHANGED <<caches, inserts, pops>>
           /\ \A s \in Slots :
                  lookups'[s].pc = "dns" => ~ spaced(lookups'[s].domain, DomainCASuffix) ]_vars

\* /lookup answered a name that carries the other endpoint's suffix while the
\* domain cache held entries.
C14_Witness ==
    /\ resp.kind = "lookup"
    /\ resp.domain = <<"a.bit">> \o AIAParentSuffix
    /\ resp.body = <<>>
    /\ domainCertCache # EmptyMap

\* cache c2 is cache c with one entry appended at the tail of one key's sequence
TailAppend(c, c2) ==
    \E k \in DOMAIN c2 :
        /\ DOMAIN c2 = DOMAIN c \cup {k}
        /\ Len(c2[k]) = Len(MapGet(c, k)) + 1
        /\ SubSeq(c2[k], 1, Len(c2[k]) - 1) = MapGet(c, k)
        /\ \A j \in DOMAIN c2 \ {k} : c2[j] = c[j]

\* cache c2 is cache c without the head entry of one key's sequence, and
\* without the key when that was its last entry
HeadRemoval(c, c2) ==
    \E k \in DOMAIN c :
        /\ IF Len(c[k]) > 1
           THEN DOMAIN c2 = DOMAIN c /\ c2[k] = Tail(c[k])
           ELSE DOMAIN c2 = DOMAIN c \ {k}
        /\ \A j \in DOMAIN c2 \ {k} : c2[j] = c[j]

\* C18: a step changes a cache only by appending one entry at the tail of a
\* key's sequence or, the domain cache only, by removing a key's head entry;
\* the entries that stay keep their expiration and text, and the negative and
\* the original cache lose no entry and no key.
C18_AppendThenPrune ==
    [][ /\ \/ domainCertCache' = domainCertCache
           \/ TailAppend(domainCertCache, domainCertCache')
           \/ HeadRemoval(domainCertCache, domainCertCache')
        /\ \/ negativeCertCache' = negativeCertCache
           \/ TailAppend(negativeCertCache, negativeCertCache')
        /\ \/ originalCertCache' = originalCertCache
           \/ TailAppend(originalCertCache, originalCertCache') ]_vars

\* Two entries went into the domain cache and the head one was popped; the
\* negative and the original cache were appended to.
C18_Witness ==
    /\ nSynth >= 2
    /\ inserts = EmptyBag
    /\ BagCardinality(pops) = 1
    /\ \E k \in DOMAIN domainCertCache : Len(domainCertCache[k]) = 1
    /\ negativeCertCache # EmptyMap
    /\ originalCertCache # EmptyMap

\* C20: no step changes the root and TLD CA material; /get-new-negative-ca,
\* /aia and /original-from-serial leave the three caches as they are; /lookup
\* and the goroutines it starts change only the domain cache, and only they
\* change it; /cross-sign-ca changes only the negative and the original
\* cache, and only it changes them.
C20_Frame ==
    [][ /\ ca' = ca
        /\ resp'.kind \in {"get-new-negative-ca", "aia", "original-from-serial"}
               => UNCHANGED caches
        /\ (resp'.kind = "lookup" \/ lookups' # lookups \/ inserts' # inserts \/ pops' # pops)
               => UNCHANGED <<negativeCertCache, originalCertCache>>
        /\ domainCertCache' # domainCertCache
               => (inserts' # inserts \/ pops' # pops) /\ UNCHANGED signs
        /\ (resp'.kind = "cross-sign" \/ signs' # signs)
               => UNCHANGED domainCertCache
        /\ (negativeCertCache' # negativeCertCache \/ originalCertCache' # originalCertCache)
               => signs' # signs /\ UNCHANGED <<lookups, inserts, pops>> ]_vars

\* /get-new-negative-ca answered while each of the three caches held entries.
C20_Witness ==
    /\ resp.kind = "get-new-negative-ca"
    /\ domainCertCache # EmptyMap
    /\ negativeCertCache # EmptyMap
    /\ originalCertCache # EmptyMap

\* C19: every entry put into the domain cache is removed in the end: if from
\* some point on no /lookup request arrives, then, the goroutines being
\* scheduled fairly, the domain cache becomes empty and stays empty, whatever
\* the order in which the insert and the pop goroutines of a certificate run.
C19_DomainCacheEventuallyEmpty ==
    <>[][~ \E s \in Slots, d \in Domains : LookupStart(s, d)]_vars
        => <>[](domainCertCache = EmptyMap)

\* The threads that hold mutex m for reading, and for writing.
ReadHolders(m) ==
    { t \in Threads : m \in threads[t].held /\ NextMu(t) = m
                        /\ (At(t, "Read") \/ At(t, "RUnlock")) }
WriteHolders(m) ==
    { t \in Threads : m \in threads[t].held /\ NextMu(t) = m
                        /\ (At(t, "Write") \/ At(t, "Unlock")) }

\* C17: however the handlers and goroutines interleave, a cache's mutex is
\* held by any number of readers or by one writer and nobody else; a get
\* never reads a cache while a put or a pop is half done, and two writes are
\* never half done together; a mutex is held only between a cache function's
\* lock and unlock, so never during a DNS query, a synthesis or cross-sign
\* call, an HTTP write or a sleep; no thread holds two mutexes; and while a
\* thread has something left to do, some thread can take a step.
C17_LockDiscipline ==
    /\ \A m \in Mutexes :
        /\ Cardinality(WriteHolders(m)) <= 1
        /\ WriteHolders(m) # {} => ReadHolders(m) = {}
        /\ mu[m].writer <=> WriteHolders(m) # {}
        /\ mu[m].readers = Cardinality(ReadHolders(m))
        /\ dirty[m] <= 1
    /\ \A t \in Threads :
        /\ At(t, "Read") => dirty[NextMu(t)] = 0
        /\ At(t, "Write") => ReadHolders(NextMu(t)) = {}
        /\ At(t, "IO") => threads[t].held = {}
        /\ threads[t].prog = <<>> => threads[t].held = {}
        /\ Cardinality(threads[t].held) <= 1
        /\ \A m \in threads[t].held : t \in ReadHolders(m) \cup WriteHolders(m)
    /\ (\E t \in Threads : threads[t].prog # <<>>) => \E t \in Threads : CanStep(t)

\* Two handlers hold the domain cache's mutex for reading while a goroutine
\* waits to write it.
C17_Witness ==
    /\ mu["domain"].readers = 2
    /\ mu["domain"].pending = 1
    /\ \E t \in Threads : At(t, "Lock") /\ threads[t].phase = "waiting"

\* The name holds a space character.
HasSpace(k) == \E i \in 1..Len(k) : k[i] = " "

\* C21: in every reachable state no key of the domain cache holds a space
\* and no key maps to an empty sequence; and every insert and pop goroutine,
\* and every handler waiting for its DNS answer, carries the name with the
\* " Domain CA" suffix stripped and without a space.
C21_DomainCacheKeys ==
    /\ \A k \in DOMAIN domainCertCache :
        /\ ~ HasSpace(k)
        /\ domainCertCache[k] # <<>>
    /\ \A t \in BagToSet(inserts) \cup BagToSet(pops) :
        /\ ~ HasSpace(t.commonName)
        /\ TrimSuffix(t.commonName, DomainCASuffix) = t.commonName
    /\ \A s \in Slots :
        lookups[s].pc = "dns"
            => /\ lookups[s].name = TrimSuffix(lookups[s].domain, DomainCASuffix)
               /\ ~ HasSpace(lookups[s].name)

\* /lookup for "a.bit Domain CA" started goroutines for its certificates
\* while the domain cache held the key "a.bit".
C21_Witness ==
    /\ resp.kind = "lookup"
    /\ resp.domain = <<"a.bit">> \o DomainCASuffix
    /\ resp.spawned >= 2
    /\ <<"a.bit">> \in DOMAIN domainCertCache
    /\ \E t \in BagToSet(inserts) : t.commonName = <<"a.bit">>

====
